---- MODULE Spec2Model ----
(***************************************************************************)
(* gest (src/main.go): a filter that folds the `go test -json` event       *)
(* stream read from stdin into a package -> parent test -> subtest model,  *)
(* and a coverage profile into a directory tree aggregated bottom-up.      *)
(*                                                                         *)
(* Strings the program transforms (test identifiers, profile lines, file   *)
(* paths) are sequences of one-character strings, so that SplitN,          *)
(* prettify, the profile regexp and Atoi are computed, not assumed.        *)
(* Elapsed seconds are only stored and copied; they are integers here.     *)
(***************************************************************************)
EXTENDS Integers, Sequences, FiniteSets, TLC

VARIABLES
    pc,             \* position of main(): read, report, open, scan, build, aggregate, render, summary, done, exited
    coverProfile,   \* value of the -coverprofile / -c flag ("" when absent)
    disk,           \* the profile file: [exists, lines]
    consumed,       \* the stdin lines scanner.Scan() has returned so far
    packages,       \* map[string]*PackageResult
    suitesPassed, suitesFailed, suitesSkipped,
    testsPassed, testsFailed, testsDone,
    lineNo,         \* number of profile lines the scanner of parseCoverProfile has returned
    result,         \* map[string]*FileCoverage built by parseCoverProfile
    tree,           \* the *TreeNode of main(), NoTree before buildTree
    out,            \* the sections written to stdout, in order
    exitCode        \* process exit status, NoExit while running

vars == <<pc, coverProfile, disk, consumed, packages, suitesPassed, suitesFailed,
          suitesSkipped, testsPassed, testsFailed, testsDone, lineNo, result, tree,
          out, exitCode>>

testVars == <<consumed, packages, testsPassed, testsFailed, testsDone>>
suiteVars == <<suitesPassed, suitesFailed, suitesSkipped>>
coverVars == <<lineNo, result, tree>>

\* ---------------------------------------------------------------- bounds

\* Longest stdin stream explored.
MaxEvents == 3
\* Longest coverage profile explored.
MaxLines == 3

\* ---------------------------------------------------------------- maps

EmptyMap == [k \in {} |-> {}]

Put(m, k, v) == [x \in DOMAIN m \cup {k} |-> IF x = k THEN v ELSE m[x]]

\* ---------------------------------------------------------------- strings

RECURSIVE ReplaceAll(_, _, _)
\* strings.ReplaceAll for a one-character pattern.
ReplaceAll(s, old, new) ==
    IF s = <<>> THEN <<>>
    ELSE (IF Head(s) = old THEN new ELSE <<Head(s)>>) \o ReplaceAll(Tail(s), old, new)

prettify(name) == ReplaceAll(ReplaceAll(name, "_", <<" ">>), "/", <<" ", ">", " ">>)

\* Positions of character c in s.
IndexesOf(s, c) == {i \in 1..Len(s) : s[i] = c}

Min(S) == CHOOSE x \in S : \A y \in S : x <= y
Max(S) == CHOOSE x \in S : \A y \in S : x >= y

\* strings.SplitN(s, sep, 2): at most two parts, cut at the first separator.
SplitN2(s, sep) ==
    IF IndexesOf(s, sep) = {} THEN <<s>>
    ELSE LET i == Min(IndexesOf(s, sep))
         IN <<SubSeq(s, 1, i - 1), SubSeq(s, i + 1, Len(s))>>

RECURSIVE Split(_, _)
\* strings.Split(s, sep) for a one-character separator.
Split(s, sep) ==
    IF IndexesOf(s, sep) = {} THEN <<s>>
    ELSE LET i == Min(IndexesOf(s, sep))
         IN <<SubSeq(s, 1, i - 1)>> \o Split(SubSeq(s, i + 1, Len(s)), sep)

\* ---------------------------------------------------------------- test events

\* The fields of TestEvent the program reads (Time and Output are never used).
Event(action, package, test, elapsed) ==
    [Action |-> action, Package |-> package, Test |-> test, Elapsed |-> elapsed]

\* The value of `var event TestEvent` before json.Unmarshal fills it.
ZeroEvent == Event("", "", <<>>, 0)

\* A stdin line: ok says whether json.Unmarshal accepts it, event what it decodes to.
\* JsonLine(ZeroEvent) is the line `{}`, GarbageLine a line that is not JSON.
JsonLine(e) == [ok |-> TRUE, event |-> e]
GarbageLine == [ok |-> FALSE, event |-> ZeroEvent]

TFoo == <<"F">>
TFooBar == <<"F", "/", "B">>
TNested == <<"F", "_", "x", "/", "B", "/", "C">>

StdinLines ==
    {JsonLine(Event(a, "p", <<>>, e)) : a \in {"pass", "fail"}, e \in {1, 2}}
    \cup {JsonLine(Event(a, "p", t, 1)) : a \in {"pass", "fail"}, t \in {TFoo, TFooBar}}
    \cup {JsonLine(Event("run", "p", TFoo, 0)), JsonLine(Event("start", "p", <<>>, 0))}
    \cup {JsonLine(Event("pass", "q", <<>>, 1)), JsonLine(Event("pass", "q", TNested, 1))}
    \cup {JsonLine(ZeroEvent), GarbageLine}

\* json.Unmarshal(line, &event) returned no error.
Unmarshals(line) == line.ok

NewPackageResult(name) ==
    [Name |-> name, Passed |-> FALSE, Skipped |-> FALSE, Duration |-> 0,
     ParentMap |-> EmptyMap, HasTests |-> FALSE]

NewParentTest(name) == [Name |-> name, Subtests |-> <<>>, Passed |-> FALSE]

SubTest(name, passed, time) == [Name |-> name, Passed |-> passed, Time |-> time]

\* Mutation of EnsurePackage: the entry is created only inside `if event.Test != ""`.
EnsurePackageTestOnly(pkgs, event) ==
    IF event.Test # <<>> /\ event.Package \notin DOMAIN pkgs
    THEN Put(pkgs, event.Package, NewPackageResult(event.Package))
    ELSE pkgs

\* First sight of a package creates its entry.
EnsurePackage(pkgs, event) ==
    IF event.Package \notin DOMAIN pkgs
    THEN Put(pkgs, event.Package, NewPackageResult(event.Package))
    ELSE pkgs

\* The switch on event.Action, as it acts on the parent test.
ParentAfter(pt, action, isSub, subtestName, elapsed) ==
    CASE action = "pass" /\ isSub ->
            [pt EXCEPT !.Subtests = Append(@, SubTest(subtestName, TRUE, elapsed))]
      [] action = "pass" /\ ~isSub ->
            [pt EXCEPT !.Passed = TRUE]
      [] action = "fail" /\ isSub ->
            [pt EXCEPT !.Subtests = Append(@, SubTest(subtestName, FALSE, elapsed)),
                       !.Passed = FALSE]
      [] action = "fail" /\ ~isSub ->
            [pt EXCEPT !.Passed = FALSE]
      [] OTHER -> pt

Counters(p, f, d) == [testsPassed |-> p, testsFailed |-> f, testsDone |-> d]

\* Mutation of CountersAfter: the fail branch forgets testsFailed++.
CountersAfterFailUncounted(c, action) ==
    CASE action = "pass" -> Counters(c.testsPassed + 1, c.testsFailed, c.testsDone + 1)
      [] action = "fail" -> Counters(c.testsPassed, c.testsFailed, c.testsDone + 1)
      [] OTHER -> c

\* The switch on event.Action, as it acts on the counters.
CountersAfter(c, action) ==
    CASE action = "pass" -> Counters(c.testsPassed + 1, c.testsFailed, c.testsDone + 1)
      [] action = "fail" -> Counters(c.testsPassed, c.testsFailed + 1, c.testsDone + 1)
      [] OTHER -> c

\* if event.Test != "" { ... }, as it acts on the package's entry.
TestScoped(pkg, event) ==
    IF event.Test = <<>> THEN pkg
    ELSE LET parts == SplitN2(event.Test, "/")
             parent == prettify(parts[1])
             isSub == Len(parts) = 2
             subtestName == IF isSub THEN prettify(parts[2]) ELSE <<>>
             pm == IF parent \in DOMAIN pkg.ParentMap THEN pkg.ParentMap
                   ELSE Put(pkg.ParentMap, parent, NewParentTest(parent))
         IN [pkg EXCEPT
                !.HasTests = TRUE,
                !.ParentMap = [pm EXCEPT ![parent] =
                    ParentAfter(@, event.Action, isSub, subtestName, event.Elapsed)]]

\* Mutation of PackageScoped: the fail branch forgets to record the duration.
PackageScopedFailNoDuration(pkg, event) ==
    IF event.Test # <<>> THEN pkg
    ELSE CASE event.Action = "pass" ->
                 [pkg EXCEPT !.Passed = TRUE, !.Duration = event.Elapsed]
           [] event.Action = "fail" ->
                 [pkg EXCEPT !.Passed = FALSE]
           [] OTHER -> pkg

\* The package-level pass/fail detection that ends the loop body.
PackageScoped(pkg, event) ==
    IF event.Test # <<>> THEN pkg
    ELSE CASE event.Action = "pass" ->
                 [pkg EXCEPT !.Passed = TRUE, !.Duration = event.Elapsed]
           [] event.Action = "fail" ->
                 [pkg EXCEPT !.Passed = FALSE, !.Duration = event.Elapsed]
           [] OTHER -> pkg

\* Mutation of Classify: pkg.Passed is tested before pkg.HasTests.
ClassifyPassedFirst(pkg) ==
    IF pkg.Passed THEN "passed"
    ELSE IF ~pkg.HasTests THEN "skipped"
    ELSE "failed"

\* The branch of the finalization loop a package takes.
Classify(pkg) ==
    IF ~pkg.HasTests THEN "skipped"
    ELSE IF pkg.Passed THEN "passed"
    ELSE "failed"

\* ---------------------------------------------------------------- coverage profile

Digit == <<"0", "1", "2", "3", "4", "5", "6", "7", "8", "9">>

IsDigit(c) == \E d \in 1..10 : Digit[d] = c

DigitVal(c) == (CHOOSE d \in 1..10 : Digit[d] = c) - 1

RECURSIVE Atoi(_)
\* strconv.Atoi on a run of decimal digits.
Atoi(ds) ==
    IF ds = <<>> THEN 0
    ELSE 10 * Atoi(SubSeq(ds, 1, Len(ds) - 1)) + DigitVal(ds[Len(ds)])

RECURSIVE Itoa(_)
\* The decimal digits of n >= 0, as the profile's writer prints them.
Itoa(n) == IF n < 10 THEN <<Digit[n + 1]>> ELSE Itoa(n \div 10) \o <<Digit[(n % 10) + 1]>>

HasPrefix(s, prefix) ==
    Len(s) >= Len(prefix) /\ SubSeq(s, 1, Len(prefix)) = prefix

ModePrefix == <<"m", "o", "d", "e", ":">>

RECURSIVE RunEnd(_, _)
\* The position after the maximal run of digits of s that starts at i.
RunEnd(s, i) == IF i <= Len(s) /\ IsDigit(s[i]) THEN RunEnd(s, i + 1) ELSE i

\* What follows `^(.+):` in the regexp: "d" stands for \d+, the rest are literals.
\* Every \d+ is followed by a non-digit literal or by $, so it takes a maximal run.
TailPattern == <<"d", ".", "d", ",", "d", ".", "d", " ", "d", " ", "d">>

\* FindStringSubmatch's nil.
NoMatch == <<>>

RECURSIVE MatchFrom(_, _, _, _, _)
\* The digit runs of s[i..] matched against pat[k..] up to the end of s, or NoMatch.
MatchFrom(s, i, pat, k, caps) ==
    IF k > Len(pat) THEN (IF i = Len(s) + 1 THEN caps ELSE NoMatch)
    ELSE IF pat[k] = "d"
         THEN LET j == RunEnd(s, i)
              IN IF j = i THEN NoMatch
                 ELSE MatchFrom(s, j, pat, k + 1, Append(caps, SubSeq(s, i, j - 1)))
         ELSE IF i <= Len(s) /\ s[i] = pat[k]
              THEN MatchFrom(s, i + 1, pat, k + 1, caps)
              ELSE NoMatch

\* Mutation of FindStringSubmatch: the regexp ends ` \d+( \d+)?$`, the hit count
\* optional and read as 0 when absent.
FindStringSubmatchCountOptional(line) ==
    LET shortPattern == SubSeq(TailPattern, 1, 9)
        full == {i \in IndexesOf(line, ":") :
                    i > 1 /\ MatchFrom(line, i + 1, TailPattern, 1, <<>>) # NoMatch}
        short == {i \in IndexesOf(line, ":") :
                    i > 1 /\ MatchFrom(line, i + 1, shortPattern, 1, <<>>) # NoMatch}
    IN IF full # {}
       THEN LET i == Max(full)
                caps == MatchFrom(line, i + 1, TailPattern, 1, <<>>)
            IN <<SubSeq(line, 1, i - 1), caps[1], caps[6]>>
       ELSE IF short # {}
       THEN LET i == Max(short)
                caps == MatchFrom(line, i + 1, shortPattern, 1, <<>>)
            IN <<SubSeq(line, 1, i - 1), caps[1], <<"0">>>>
       ELSE NoMatch

\* re.FindStringSubmatch(line) for `^(.+):(\d+)\.\d+,\d+\.\d+ \d+ (\d+)$`: the
\* three groups' texts left out the whole match. (.+) is greedy: the last colon
\* after which the rest of the pattern matches.
FindStringSubmatch(line) ==
    LET cands == {i \in IndexesOf(line, ":") :
                     i > 1 /\ MatchFrom(line, i + 1, TailPattern, 1, <<>>) # NoMatch}
    IN IF cands = {} THEN NoMatch
       ELSE LET i == Max(cands)
                caps == MatchFrom(line, i + 1, TailPattern, 1, <<>>)
            IN <<SubSeq(line, 1, i - 1), caps[1], caps[6]>>

NewFileCoverage(filePath) ==
    [File |-> filePath, Covered |-> {}, Uncovered |-> {}, Total |-> {}]

\* Mutation of AddLine: Total is filled in the covered branch only.
AddLineTotalOnHit(fc, lineNum, count) ==
    IF count > 0
    THEN [fc EXCEPT !.Total = @ \cup {lineNum}, !.Covered = @ \cup {lineNum}]
    ELSE [fc EXCEPT !.Uncovered = @ \cup {lineNum}]

\* Mutation of AddLine: the test is count >= 0.
AddLineZeroIsHit(fc, lineNum, count) ==
    LET withTotal == [fc EXCEPT !.Total = @ \cup {lineNum}]
    IN IF count >= 0
       THEN [withTotal EXCEPT !.Covered = @ \cup {lineNum}]
       ELSE [withTotal EXCEPT !.Uncovered = @ \cup {lineNum}]

\* One record's line number entered into the file's three sets.
AddLine(fc, lineNum, count) ==
    LET withTotal == [fc EXCEPT !.Total = @ \cup {lineNum}]
    IN IF count > 0
       THEN [withTotal EXCEPT !.Covered = @ \cup {lineNum}]
       ELSE [withTotal EXCEPT !.Uncovered = @ \cup {lineNum}]

\* The body of the scanner loop of parseCoverProfile for one line.
ProfileLine(res, line) ==
    IF HasPrefix(line, ModePrefix) THEN res
    ELSE LET m == FindStringSubmatch(line)
         IN IF m = NoMatch THEN res
            ELSE LET filePath == m[1]
                     lineNum == Atoi(m[2])
                     count == Atoi(m[3])
                     res2 == IF filePath \in DOMAIN res THEN res
                             ELSE Put(res, filePath, NewFileCoverage(filePath))
                 IN [res2 EXCEPT ![filePath] = AddLine(@, lineNum, count)]

\* Mutation of OpenErr: the error of os.Open is dropped.
OpenErrIgnored(d) == FALSE

\* os.Open(path) failed.
OpenErr(d) == ~d.exists

\* ---------------------------------------------------------------- coverage tree

\* A tree is a function from a node's path from the root (the sequence of map keys
\* followed through Children) to the node's fields; the root's path is <<>>, and
\* node.Children[part] is the node at path \o <<part>>.
NewTreeNode(name, isDir) ==
    [Name |-> name, IsDir |-> isDir, Covered |-> 0, Total |-> 0, Uncovered |-> <<>>,
     Coverage |-> <<0, 1>>]

RootName == <<".">>

\* float64(covered) / float64(total) * 100, kept as the exact fraction <<num, den>>.
Percent(covered, total) == <<covered * 100, total>>

Children(t, path) ==
    {k \in DOMAIN t : Len(k) = Len(path) + 1 /\ SubSeq(k, 1, Len(path)) = path}

RECURSIVE Insert(_, _)
\* sort.Ints, by insertion.
Insert(sorted, x) ==
    IF sorted = <<>> THEN <<x>>
    ELSE IF x <= Head(sorted) THEN <<x>> \o sorted
    ELSE <<Head(sorted)>> \o Insert(Tail(sorted), x)

RECURSIVE SortInts(_)
SortInts(s) == IF s = <<>> THEN <<>> ELSE Insert(SortInts(Tail(s)), Head(s))

\* The elements of S in the order they have in the sequence `order`: one iteration
\* order of a Go map whose keys are S.
RangeOver(S, order) ==
    LET idx == {i \in 1..Len(order) : order[i] \in S}
        F[n \in 0..Len(order)] ==
            IF n = 0 THEN <<>>
            ELSE IF n \in idx THEN Append(F[n - 1], order[n]) ELSE F[n - 1]
    IN F[Len(order)]

\* The walk of buildTree along one path: a node is created for every segment
\* that has none yet.
Walk(t, parts) ==
    LET prefixes == {SubSeq(parts, 1, i) : i \in 1..Len(parts)}
    IN [k \in DOMAIN t \cup prefixes |->
           IF k \in DOMAIN t THEN t[k]
           ELSE NewTreeNode(k[Len(k)], Len(k) < Len(parts))]

\* The terminal node of a path takes the file's counts.
SetLeaf(node, fc, lineOrder) ==
    LET covered == Cardinality(fc.Covered)
        total == Cardinality(fc.Total)
    IN [node EXCEPT !.Covered = covered,
                    !.Total = total,
                    !.Uncovered = SortInts(RangeOver(fc.Uncovered, lineOrder)),
                    !.Coverage = IF total > 0 THEN Percent(covered, total) ELSE @]

RECURSIVE buildTreeFrom(_, _, _, _)
\* The loop of buildTree over fileData, taken in the order `fileOrder`.
buildTreeFrom(t, fileData, fileOrder, lineOrder) ==
    IF fileOrder = <<>> THEN t
    ELSE LET filePath == Head(fileOrder)
             parts == Split(filePath, "/")
             walked == Walk(t, parts)
         IN buildTreeFrom([walked EXCEPT ![parts] = SetLeaf(@, fileData[filePath], lineOrder)],
                          fileData, Tail(fileOrder), lineOrder)

buildTree(fileData, fileOrder, lineOrder) ==
    buildTreeFrom([k \in {<<>>} |-> NewTreeNode(RootName, TRUE)], fileData, fileOrder, lineOrder)

RECURSIVE SumField(_, _, _)
SumField(t, S, field) ==
    IF S = {} THEN 0
    ELSE LET k == CHOOSE x \in S : TRUE IN t[k][field] + SumField(t, S \ {k}, field)

RECURSIVE aggregate(_, _)
RECURSIVE aggregateEach(_, _)
\* aggregate(node) for the node at `path`: the tree after the call.
aggregate(t, path) ==
    IF ~t[path].IsDir THEN t
    ELSE LET kids == Children(t, path)
             t2 == aggregateEach(t, kids)
             totalCovered == SumField(t2, kids, "Covered")
             totalLines == SumField(t2, kids, "Total")
         IN [t2 EXCEPT ![path].Covered = totalCovered,
                       ![path].Total = totalLines,
                       ![path].Coverage =
                           IF totalLines > 0 THEN Percent(totalCovered, totalLines) ELSE @]

aggregateEach(t, S) ==
    IF S = {} THEN t
    ELSE LET k == CHOOSE x \in S : TRUE IN aggregateEach(aggregate(t, k), S \ {k})

\* ---------------------------------------------------------------- inputs

NoFile == [exists |-> FALSE, lines |-> <<>>]
File(lines) == [exists |-> TRUE, lines |-> lines]

\* A well-formed profile record for one block that starts at startLine.
Record(path, startLine, count) ==
    path \o <<":">> \o Itoa(startLine) \o <<".", "1", ",">> \o Itoa(startLine)
         \o <<".", "9", " ", "1", " ">> \o Itoa(count)

\* A record cut short: the hit count is missing.
MissingCount(path, startLine) ==
    path \o <<":">> \o Itoa(startLine) \o <<".", "1", ",">> \o Itoa(startLine)
         \o <<".", "9", " ", "1">>

ModeLine == ModePrefix \o <<" ", "s", "e", "t">>

PathA == <<"a">>
PathAB == <<"a", "/", "b">>
PathAC == <<"a", "/", "c">>
PathABF == <<"a", "/", "b", "/", "f">>

Paths == {PathA, PathAB, PathAC}
LineNums == {2, 10}
SampleLineNums == {1, 2, 3, 7}
Counts == {0, 1}

MalformedLines == {MissingCount(PathAB, 2), <<"o", "k", " ", "a">>}

CoverLines ==
    {Record(f, n, c) : f \in Paths, n \in LineNums, c \in Counts}
    \cup {ModeLine} \cup MalformedLines

\* A profile as `go test -coverprofile` writes it (a mode line, then one file's
\* three blocks), with one record cut short in the middle.
SampleProfile ==
    <<ModeLine, Record(PathABF, 1, 1), MissingCount(PathABF, 7), Record(PathABF, 2, 0),
      Record(PathABF, 3, 1)>>

BoundedSeq(S, n) == UNION {[1..k -> S] : k \in 0..n}

Profiles == BoundedSeq(CoverLines, MaxLines)

\* All orders in which a Go map with keys S may be ranged over.
Orders(S) ==
    {o \in [1..Cardinality(S) -> S] : \A i, j \in 1..Cardinality(S) : i # j => o[i] # o[j]}

NoTree == <<>>

\* ---------------------------------------------------------------- main

InitState ==
    /\ pc = "read"
    /\ consumed = <<>>
    /\ packages = EmptyMap
    /\ suitesPassed = 0 /\ suitesFailed = 0 /\ suitesSkipped = 0
    /\ testsPassed = 0 /\ testsFailed = 0 /\ testsDone = 0
    /\ lineNo = 0
    /\ result = EmptyMap
    /\ tree = NoTree
    /\ out = <<>>
    /\ exitCode = "none"

Init ==
    /\ InitState
    /\ \/ coverProfile = "" /\ disk = NoFile
       \/ coverProfile = "cover.out" /\ disk \in {NoFile, File(SampleProfile)}

\* One pass of the stdin scanner loop: a line is read, decoded and folded in.
Ingest ==
    /\ pc = "read"
    /\ Len(consumed) < MaxEvents
    /\ \E line \in StdinLines :
        /\ consumed' = Append(consumed, line)
        /\ IF ~Unmarshals(line)
           THEN UNCHANGED <<packages, testsPassed, testsFailed, testsDone>>
           ELSE LET event == line.event
                    pkgs == EnsurePackage(packages, event)
                    c == IF event.Test # <<>>
                         THEN CountersAfter(Counters(testsPassed, testsFailed, testsDone),
                                            event.Action)
                         ELSE Counters(testsPassed, testsFailed, testsDone)
                IN /\ packages' = [pkgs EXCEPT ![event.Package] =
                                      PackageScoped(TestScoped(@, event), event)]
                   /\ testsPassed' = c.testsPassed
                   /\ testsFailed' = c.testsFailed
                   /\ testsDone' = c.testsDone
    /\ UNCHANGED <<pc, coverProfile, disk, suiteVars, coverVars, out, exitCode>>

SuiteCount(pkgs, class) == Cardinality({p \in DOMAIN pkgs : Classify(pkgs[p]) = class})

\* Stdin is exhausted: the loop that sets Skipped and counts the suites.
Finalize ==
    /\ pc = "read"
    /\ pc' = "report"
    /\ packages' = [p \in DOMAIN packages |->
                       IF Classify(packages[p]) = "skipped"
                       THEN [packages[p] EXCEPT !.Skipped = TRUE]
                       ELSE packages[p]]
    /\ suitesSkipped' = suitesSkipped + SuiteCount(packages, "skipped")
    /\ suitesPassed' = suitesPassed + SuiteCount(packages, "passed")
    /\ suitesFailed' = suitesFailed + SuiteCount(packages, "failed")
    /\ UNCHANGED <<coverProfile, disk, consumed, testsPassed, testsFailed, testsDone,
                   coverVars, out, exitCode>>

\* No -coverprofile: the grouped report of packages, parents and subtests.
ReportGrouped ==
    /\ pc = "report"
    /\ coverProfile = ""
    /\ out' = Append(out, "grouped")
    /\ pc' = "summary"
    /\ UNCHANGED <<coverProfile, disk, testVars, suiteVars, coverVars, exitCode>>

\* With -coverprofile: one PASS / SKIP / FAIL banner per package.
PrintBanners ==
    /\ pc = "report"
    /\ coverProfile # ""
    /\ out' = Append(out, "banners")
    /\ pc' = "open"
    /\ UNCHANGED <<coverProfile, disk, testVars, suiteVars, coverVars, exitCode>>

\* parseCoverProfile returns the error of os.Open; main prints it and exits 1.
OpenFail ==
    /\ pc = "open"
    /\ OpenErr(disk)
    /\ out' = Append(out, "error")
    /\ exitCode' = 1
    /\ pc' = "exited"
    /\ UNCHANGED <<coverProfile, disk, testVars, suiteVars, coverVars>>

\* os.Open succeeded: parseCoverProfile starts with an empty result.
OpenOk ==
    /\ pc = "open"
    /\ ~OpenErr(disk)
    /\ result' = EmptyMap
    /\ lineNo' = 0
    /\ pc' = "scan"
    /\ UNCHANGED <<coverProfile, disk, testVars, suiteVars, tree, out, exitCode>>

\* One pass of the scanner loop of parseCoverProfile.
ScanLine ==
    /\ pc = "scan"
    /\ lineNo < Len(disk.lines)
    /\ lineNo' = lineNo + 1
    /\ result' = ProfileLine(result, disk.lines[lineNo + 1])
    /\ UNCHANGED <<pc, coverProfile, disk, testVars, suiteVars, tree, out, exitCode>>

\* The scanner reached the end of the file: parseCoverProfile returns (result, nil).
ScanEnd ==
    /\ pc = "scan"
    /\ lineNo = Len(disk.lines)
    /\ pc' = "build"
    /\ UNCHANGED <<coverProfile, disk, testVars, suiteVars, coverVars, out, exitCode>>

\* The scanner stopped on a read error: scanner.Err() is returned, main exits 1.
ScanFail ==
    /\ pc = "scan"
    /\ lineNo = Len(disk.lines)
    /\ out' = Append(out, "error")
    /\ exitCode' = 1
    /\ pc' = "exited"
    /\ UNCHANGED <<coverProfile, disk, testVars, suiteVars, coverVars>>

\* tree := buildTree(fileData), for some iteration order of its maps.
BuildTree ==
    /\ pc = "build"
    /\ \E fileOrder \in Orders(DOMAIN result) :
       \E lineOrder \in Orders(UNION {result[f].Uncovered : f \in DOMAIN result}) :
           tree' = buildTree(result, fileOrder, lineOrder)
    /\ pc' = "aggregate"
    /\ UNCHANGED <<coverProfile, disk, testVars, suiteVars, lineNo, result, out, exitCode>>

\* aggregate(tree)
Aggregate ==
    /\ pc = "aggregate"
    /\ tree' = aggregate(tree, <<>>)
    /\ pc' = "render"
    /\ UNCHANGED <<coverProfile, disk, testVars, suiteVars, lineNo, result, out, exitCode>>

\* The coverage table is rendered from the tree.
RenderTable ==
    /\ pc = "render"
    /\ out' = Append(out, "table")
    /\ pc' = "summary"
    /\ UNCHANGED <<coverProfile, disk, testVars, suiteVars, coverVars, exitCode>>

\* The closing summary of suites, tests and time; main returns.
Summary ==
    /\ pc = "summary"
    /\ out' = Append(out, "summary")
    /\ exitCode' = 0
    /\ pc' = "done"
    /\ UNCHANGED <<coverProfile, disk, testVars, suiteVars, coverVars>>

Next ==
    \/ Ingest
    \/ Finalize
    \/ ReportGrouped
    \/ PrintBanners
    \/ OpenFail
    \/ OpenOk
    \/ ScanLine
    \/ ScanEnd
    \/ ScanFail
    \/ BuildTree
    \/ Aggregate
    \/ RenderTable
    \/ Summary

Spec == Init /\ [][Next]_vars

\* The runs of `gest -c cover.out` on an empty stdin, over every bounded profile
\* and the sample profile.
InitCover ==
    /\ InitState
    /\ coverProfile = "cover.out"
    /\ disk \in {File(lines) : lines \in Profiles \cup {SampleProfile}}

NextCover ==
    \/ Finalize
    \/ PrintBanners
    \/ OpenOk
    \/ ScanLine
    \/ ScanEnd
    \/ ScanFail
    \/ BuildTree
    \/ Aggregate
    \/ RenderTable
    \/ Summary

SpecCover == InitCover /\ [][NextCover]_vars

\* ---------------------------------------------------------------- what was read

Range(s) == {s[i] : i \in 1..Len(s)}

\* The stdin lines read so far that decoded.
Decoded == {i \in 1..Len(consumed) : consumed[i].ok}

EventAt(i) == consumed[i].event

PackagesSeen == {EventAt(i).Package : i \in Decoded}

\* The test-scoped events of package p (any action).
TestScopedOf(p) == {i \in Decoded : EventAt(i).Package = p /\ EventAt(i).Test # <<>>}

\* The package-scoped pass/fail events of package p.
PackageScopedOf(p) ==
    {i \in Decoded : /\ EventAt(i).Package = p
                     /\ EventAt(i).Test = <<>>
                     /\ EventAt(i).Action \in {"pass", "fail"}}

IsSubtestId(test) == "/" \in Range(test)

\* The pass/fail events of package p whose test identifier falls under parent key k.
ParentEventsOf(p, k) ==
    {i \in TestScopedOf(p) : /\ prettify(SplitN2(EventAt(i).Test, "/")[1]) = k
                             /\ EventAt(i).Action \in {"pass", "fail"}}

Finalized == pc # "read"
Aggregated == pc \in {"render", "summary", "done"}

\* The profile lines parseCoverProfile has read so far.
LinesRead == {disk.lines[i] : i \in 1..lineNo}

\* The segments of the sample paths, written out.
Segments(path) ==
    CASE path = PathA -> <<(<<"a">>)>>
      [] path = PathAB -> <<(<<"a">>), (<<"b">>)>>
      [] path = PathAC -> <<(<<"a">>), (<<"c">>)>>
      [] path = PathABF -> <<(<<"a">>), (<<"b">>), (<<"f">>)>>

\* Line numbers of file f recorded with a positive / a zero hit count.
HitLines(f) == {n \in LineNums \cup SampleLineNums : Record(f, n, 1) \in LinesRead}
MissLines(f) == {n \in LineNums \cup SampleLineNums : Record(f, n, 0) \in LinesRead}

AllPaths == Paths \cup {PathABF}

\* ---------------------------------------------------------------- claims

\* C1: for the pass/fail events of one package and one parent name, in any order,
\* the parent's Passed flag is false if any subtest-fail or parent-fail event
\* occurred, and true only if a parent-level pass occurred and no fail did.
C1_ParentPassedIsConjunction ==
    \A p \in DOMAIN packages : \A k \in DOMAIN packages[p].ParentMap :
        LET evs == ParentEventsOf(p, k)
            anyFail == \E i \in evs : EventAt(i).Action = "fail"
            parentPass == \E i \in evs : /\ EventAt(i).Action = "pass"
                                         /\ ~IsSubtestId(EventAt(i).Test)
        IN /\ anyFail => ~packages[p].ParentMap[k].Passed
           /\ packages[p].ParentMap[k].Passed => parentPass /\ ~anyFail

\* C2: after finalization a package is classified skipped exactly when no event
\* with a non-empty test identifier was ingested for it, whatever package-level
\* pass/fail events it received; the skipped ones are counted in suitesSkipped
\* only, the others in suitesPassed or suitesFailed only.
C2_SkippedIffNoTestEvents ==
    Finalized =>
        /\ \A p \in DOMAIN packages : packages[p].Skipped <=> TestScopedOf(p) = {}
        /\ suitesSkipped = Cardinality({p \in PackagesSeen : TestScopedOf(p) = {}})
        /\ suitesPassed + suitesFailed =
               Cardinality({p \in PackagesSeen : TestScopedOf(p) # {}})

C2_Witness ==
    /\ pc = "done"
    /\ \E p \in DOMAIN packages :
           PackageScopedOf(p) # {} /\ TestScopedOf(p) = {} /\ packages[p].Skipped
    /\ \E q \in DOMAIN packages :
           /\ \A i \in TestScopedOf(q) : EventAt(i).Action = "run"
           /\ TestScopedOf(q) # {}
           /\ ~packages[q].Skipped

\* C3: after finalization the three suite counters add up to the number of distinct
\* package identifiers of the decoded records, and each package is counted by
\* exactly one of them.
C3_SuiteCountsPartitionPackages ==
    Finalized =>
        /\ DOMAIN packages = PackagesSeen
        /\ suitesPassed + suitesFailed + suitesSkipped = Cardinality(PackagesSeen)
        /\ suitesSkipped = Cardinality({p \in PackagesSeen : packages[p].Skipped})
        /\ suitesPassed =
               Cardinality({p \in PackagesSeen : ~packages[p].Skipped /\ packages[p].Passed})
        /\ suitesFailed =
               Cardinality({p \in PackagesSeen : ~packages[p].Skipped /\ ~packages[p].Passed})

C3_Witness ==
    /\ pc = "done"
    /\ Cardinality(PackagesSeen) = 2
    /\ Len(consumed) > Cardinality(Decoded)
    /\ suitesFailed = 1 /\ suitesSkipped = 1

\* C4: after buildTree and aggregate every directory node's covered and total are
\* the sums of its direct children's, and the root's covered and total are the sums
\* over all FileCoverage entries, for every set of file paths.
C4_AggregationSumsFiles ==
    Aggregated =>
        /\ tree[<<>>].Total =
               Cardinality(UNION {{<<f, n>> : n \in result[f].Total} : f \in DOMAIN result})
        /\ tree[<<>>].Covered =
               Cardinality(UNION {{<<f, n>> : n \in result[f].Covered} : f \in DOMAIN result})
        /\ \A k \in DOMAIN tree :
               tree[k].IsDir =>
                   /\ tree[k].Covered = SumField(tree, Children(tree, k), "Covered")
                   /\ tree[k].Total = SumField(tree, Children(tree, k), "Total")

\* C5: a line that fails to decode (stdin) or does not match the record shape
\* (profile, e.g. the hit count is missing) changes no counter and no accumulated
\* state, and the loop goes on to the lines that follow.
C5_MalformedLineChangesNothing ==
    [][/\ (/\ pc = "read"
           /\ Len(consumed') = Len(consumed) + 1
           /\ consumed'[Len(consumed')] = GarbageLine)
          => /\ UNCHANGED <<packages, testsPassed, testsFailed, testsDone, suiteVars>>
             /\ pc' = "read"
       /\ (/\ pc = "scan"
           /\ lineNo' = lineNo + 1
           /\ disk.lines[lineNo'] \in MalformedLines \cup {MissingCount(PathABF, 7)})
          => /\ UNCHANGED <<result, tree, packages, testsPassed, testsFailed, testsDone,
                            suiteVars>>
             /\ pc' = "scan"]_vars

C5_Witness ==
    /\ pc = "done"
    /\ \E i, j \in 1..Len(consumed) :
           /\ i < j
           /\ consumed[i] = GarbageLine
           /\ consumed[j] = JsonLine(Event("pass", "p", TFoo, 1))
    /\ testsPassed = 1
    /\ DOMAIN packages = {"p"}
    /\ MissingCount(PathABF, 7) \in LinesRead
    /\ result[PathABF].Total = {1, 2, 3}

\* C6: for a profile whose records all name one file and give no line number both a
\* zero and a non-zero hit count, the file node has covered = the number of distinct
\* hit lines, total = the number of distinct lines, uncovered = the distinct lines
\* never hit in ascending order, and every ancestor up to the root has the file's
\* covered and total; lines 1 hit, 2 not hit, 3 hit at a/b/f give covered = 2,
\* total = 3, uncovered = [2] at the file and 2 of 3 at a/b, a and the root.
C6_SingleFileRoundTrip ==
    Aggregated =>
        /\ \A f \in AllPaths :
            LET hit == HitLines(f)
                miss == MissLines(f)
                leaf == Segments(f)
                unc == tree[leaf].Uncovered
            IN (/\ hit \cup miss # {}
                /\ hit \cap miss = {}
                /\ \A g \in AllPaths \ {f} : HitLines(g) \cup MissLines(g) = {})
               => /\ tree[leaf].Covered = Cardinality(hit)
                  /\ tree[leaf].Total = Cardinality(hit \cup miss)
                  /\ Range(unc) = miss
                  /\ \A i, j \in 1..Len(unc) : i < j => unc[i] < unc[j]
                  /\ \A n \in 0..(Len(leaf) - 1) :
                         /\ tree[SubSeq(leaf, 1, n)].Covered = Cardinality(hit)
                         /\ tree[SubSeq(leaf, 1, n)].Total = Cardinality(hit \cup miss)
        /\ disk.lines = SampleProfile =>
               /\ tree[Segments(PathABF)].Uncovered = <<2>>
               /\ \A n \in 0..3 :
                      /\ tree[SubSeq(Segments(PathABF), 1, n)].Covered = 2
                      /\ tree[SubSeq(Segments(PathABF), 1, n)].Total = 3

C6_Witness ==
    /\ pc = "done"
    /\ disk.lines = <<Record(PathAB, 10, 0), Record(PathAB, 2, 0), Record(PathAB, 10, 0)>>
    /\ tree[Segments(PathAB)].Uncovered = <<2, 10>>
    /\ tree[<<>>].Total = 2

\* The spec's example stream: Foo passes, then its subtest Foo/Bar fails.
FooThenBar ==
    <<JsonLine(Event("pass", "p", TFoo, 1)), JsonLine(Event("fail", "p", TFooBar, 1))>>

\* C7: testsPassed / testsFailed count the ingested events with a non-empty test
\* identifier and action pass / fail, tests-processed is their sum, and no other
\* event changes them; Foo pass then Foo/Bar fail leaves Foo failed with the one
\* failed subtest Bar, testsPassed = 1 and testsFailed = 1.
C7_TestCountersCountEvents ==
    /\ testsPassed = Cardinality({i \in Decoded : /\ EventAt(i).Test # <<>>
                                                  /\ EventAt(i).Action = "pass"})
    /\ testsFailed = Cardinality({i \in Decoded : /\ EventAt(i).Test # <<>>
                                                  /\ EventAt(i).Action = "fail"})
    /\ testsDone = testsPassed + testsFailed
    /\ consumed = FooThenBar =>
           /\ packages["p"].ParentMap[TFoo].Passed = FALSE
           /\ packages["p"].ParentMap[TFoo].Subtests = <<SubTest(<<"B">>, FALSE, 1)>>
           /\ testsPassed = 1
           /\ testsFailed = 1

C7_Witness ==
    /\ consumed = FooThenBar
    /\ pc = "done"
    /\ testsDone = 2

\* C8: when a profile path is given and the file cannot be opened, the run ends
\* with exit code 1 after the error message; no tree is built, and neither the
\* coverage table nor the final summary is ever printed.
C8_OpenFailureIsFatal ==
    (coverProfile # "" /\ ~disk.exists) =>
        /\ tree = NoTree
        /\ result = EmptyMap
        /\ "table" \notin Range(out)
        /\ "summary" \notin Range(out)
        /\ pc \in {"read", "report", "open", "exited"}
        /\ pc = "exited" => exitCode = 1 /\ out = <<"banners", "error">>
        /\ pc # "exited" => exitCode = "none"

C8_Witness ==
    /\ pc = "exited"
    /\ ~disk.exists
    /\ exitCode = 1
    /\ Len(consumed) = MaxEvents

\* C9: every FileCoverage has Total = Covered \cup Uncovered; a line recorded both
\* hit and not hit is in Covered and in Uncovered and once in Total, so
\* |Covered| <= |Total| <= |Covered| + |Uncovered|; after aggregate covered <= total
\* at every node and no percentage exceeds 100.
C9_TotalIsUnion ==
    /\ \A f \in DOMAIN result :
           /\ result[f].Total = result[f].Covered \cup result[f].Uncovered
           /\ HitLines(f) \cap MissLines(f) \subseteq result[f].Covered \cap result[f].Uncovered
           /\ Cardinality(result[f].Covered) <= Cardinality(result[f].Total)
           /\ Cardinality(result[f].Total)
                  <= Cardinality(result[f].Covered) + Cardinality(result[f].Uncovered)
    /\ Aggregated =>
           \A k \in DOMAIN tree :
               /\ tree[k].Covered <= tree[k].Total
               /\ tree[k].Coverage[1] <= 100 * tree[k].Coverage[2]

C9_Witness ==
    /\ pc = "done"
    /\ \E f \in DOMAIN result :
           /\ HitLines(f) \cap MissLines(f) # {}
           /\ Cardinality(result[f].Total)
                  < Cardinality(result[f].Covered) + Cardinality(result[f].Uncovered)

\* C10: a package's passed flag and duration are those of its most recent
\* package-scoped pass/fail event (not passed, if none arrived), whatever
\* test-scoped or other events it received; finalization counts a package that has
\* test-scoped events as passed exactly when that flag is set, and as failed
\* otherwise.
C10_LastPackageEventWins ==
    /\ \A p \in DOMAIN packages :
           LET evs == PackageScopedOf(p)
           IN /\ packages[p].Passed = (evs # {} /\ EventAt(Max(evs)).Action = "pass")
              /\ evs # {} => packages[p].Duration = EventAt(Max(evs)).Elapsed
              /\ evs = {} => packages[p].Duration = 0
    /\ Finalized =>
           /\ suitesPassed =
                  Cardinality({p \in PackagesSeen :
                      /\ TestScopedOf(p) # {}
                      /\ PackageScopedOf(p) # {}
                      /\ EventAt(Max(PackageScopedOf(p))).Action = "pass"})
           /\ suitesFailed =
                  Cardinality({p \in PackagesSeen :
                      /\ TestScopedOf(p) # {}
                      /\ \/ PackageScopedOf(p) = {}
                         \/ EventAt(Max(PackageScopedOf(p))).Action = "fail"})

C10_Witness ==
    /\ pc = "done"
    /\ consumed = <<JsonLine(Event("pass", "p", <<>>, 1)),
                    JsonLine(Event("fail", "p", <<>>, 2)),
                    JsonLine(Event("pass", "p", TFoo, 1))>>
    /\ packages["p"].Duration = 2
    /\ suitesFailed = 1

====
